---- MODULE Spec2Model ----
(***************************************************************************)
(* PROXY protocol v2 header decoder (src/src/lib.rs).  The four parsers    *)
(* are pure functions over a byte slice built from nom's "complete"        *)
(* combinators; a caller threads the remainder of one parser into the next *)
(* and stops at the first error, as the `?` operator does.                 *)
(***************************************************************************)
EXTENDS Integers, Sequences, FiniteSets

VARIABLES buffer, input, trace

vars == <<buffer, input, trace>>

----------------------------------------------------------------------------
(* Bounds of the exploration. *)

MaxTrail == 2
MaxCalls == 3

----------------------------------------------------------------------------
(* Byte slices. *)

Take(s, n) == SubSeq(s, 1, n)
Drop(s, n) == SubSeq(s, n + 1, Len(s))
Min(a, b) == IF a < b THEN a ELSE b

(* IResult: Ok((rest, value)) or Err(Err::Error(Error { input, code })). *)
Ok(rest, val) == [ok |-> TRUE, rest |-> rest, val |-> val]
Err(code, at) == [ok |-> FALSE, code |-> code, input |-> at]

(* u16 arithmetic of the address closures: (x as u16) << 8 | y as u16. *)
Shl8(x) == (x * 256) % 65536

RECURSIVE BitOr(_, _)
BitOr(x, y) ==
    IF x = 0 THEN y
    ELSE IF y = 0 THEN x
    ELSE (IF x % 2 = 1 \/ y % 2 = 1 THEN 1 ELSE 0) + 2 * BitOr(x \div 2, y \div 2)

----------------------------------------------------------------------------
(* nom combinators, "complete" flavour: a short input is Err::Error, never *)
(* Err::Incomplete.                                                        *)

Compare_ExactLength(inp, t) ==
    IF inp = t THEN "Ok" ELSE "Error"

(* <&[u8] as Compare<&[u8]>>::compare: the first differing position of the *)
(* zipped slices decides; without one the lengths decide.                  *)
compare(inp, t) ==
    IF \E i \in 1..Min(Len(inp), Len(t)) : inp[i] # t[i] THEN "Error"
    ELSE IF Len(inp) >= Len(t) THEN "Ok"
    ELSE "Incomplete"

(* bytes::complete::tag: every result of compare other than Ok, Incomplete *)
(* included, is ErrorKind::Tag on the untouched input.                     *)
tag(t, inp) ==
    IF compare(inp, t) = "Ok"
    THEN Ok(Drop(inp, Len(t)), Take(inp, Len(t)))
    ELSE Err("Tag", inp)

(* bytes::complete::take *)
take(n, inp) ==
    IF Len(inp) < n THEN Err("Eof", inp)
    ELSE Ok(Drop(inp, n), Take(inp, n))

(* number::complete::be_u8 *)
be_u8(inp) ==
    IF Len(inp) < 1 THEN Err("Eof", inp)
    ELSE Ok(Drop(inp, 1), inp[1])

be_u16_LittleEndian(inp) ==
    IF Len(inp) < 2 THEN Err("Eof", inp)
    ELSE Ok(Drop(inp, 2), (Shl8(inp[2]) + inp[1]) % 65536)

be_u16_Streaming(inp) ==
    IF Len(inp) < 2 THEN Err("Incomplete", inp)
    ELSE Ok(Drop(inp, 2), (Shl8(inp[1]) + inp[2]) % 65536)

(* number::complete::be_u16 *)
be_u16(inp) ==
    IF Len(inp) < 2 THEN Err("Eof", inp)
    ELSE Ok(Drop(inp, 2), (Shl8(inp[1]) + inp[2]) % 65536)

----------------------------------------------------------------------------
(* The parsers of lib.rs. *)

SIGNATURE_Typo == <<13, 10, 13, 10, 0, 13, 10, 80, 85, 73, 84, 10>>

SIGNATURE == <<13, 10, 13, 10, 0, 13, 10, 81, 85, 73, 84, 10>>

parse_signature(inp) == tag(SIGNATURE, inp)

version_ok_LowNibble(v) == (v % 16) = 2

(* the closure |&v| (v >> 4) == 2 *)
version_ok(v) == (v \div 16) = 2

(* verify(be_u8, |&v| (v >> 4) == 2): the error of be_u8 passes through, a *)
(* rejected value is ErrorKind::Verify on the input verify was given.      *)
verify_be_u8(inp) ==
    LET r == be_u8(inp)
    IN  IF ~r.ok THEN r
        ELSE IF version_ok(r.val) THEN r
        ELSE Err("Verify", inp)

PPv2Header_Swapped(version_command, proto_family, length) ==
    [version        |-> version_command \div 16,
     command        |-> version_command % 16,
     protocol       |-> proto_family \div 16,
     address_family |-> proto_family % 16,
     length         |-> length]

PPv2Header(version_command, proto_family, length) ==
    [version        |-> version_command \div 16,
     command        |-> version_command % 16,
     protocol       |-> proto_family % 16,
     address_family |-> proto_family \div 16,
     length         |-> length]

parse_header_NoSignature(inp) ==
    LET r2 == verify_be_u8(inp)
    IN  IF ~r2.ok THEN r2 ELSE
    LET r3 == be_u8(r2.rest)
    IN  IF ~r3.ok THEN r3 ELSE
    LET r4 == be_u16(r3.rest)
    IN  IF ~r4.ok THEN r4 ELSE
        Ok(r4.rest, PPv2Header(r2.val, r3.val, r4.val))

parse_header(inp) ==
    LET r1 == parse_signature(inp)
    IN  IF ~r1.ok THEN r1 ELSE
    LET r2 == verify_be_u8(r1.rest)
    IN  IF ~r2.ok THEN r2 ELSE
    LET r3 == be_u8(r2.rest)
    IN  IF ~r3.ok THEN r3 ELSE
    LET r4 == be_u16(r3.rest)
    IN  IF ~r4.ok THEN r4 ELSE
        Ok(r4.rest, PPv2Header(r2.val, r3.val, r4.val))

(* Ipv4Addr::new(a, b, c, d): the four octets, first argument leading. *)
Ipv4Addr_new(b) == <<b[1], b[2], b[3], b[4]>>

IPv4Address(source_ip, destination_ip, source_port, destination_port) ==
    [source_ip        |-> source_ip,
     destination_ip   |-> destination_ip,
     source_port      |-> source_port,
     destination_port |-> destination_port]

parse_ipv4_address_PortsSwapped(inp) ==
    LET r1 == take(4, inp)
    IN  IF ~r1.ok THEN r1 ELSE
    LET r2 == take(4, r1.rest)
    IN  IF ~r2.ok THEN r2 ELSE
    LET r3 == be_u16(r2.rest)
    IN  IF ~r3.ok THEN r3 ELSE
    LET r4 == be_u16(r3.rest)
    IN  IF ~r4.ok THEN r4 ELSE
        Ok(r4.rest, IPv4Address(Ipv4Addr_new(r1.val), Ipv4Addr_new(r2.val),
                                r4.val, r3.val))

parse_ipv4_address(inp) ==
    LET r1 == take(4, inp)
    IN  IF ~r1.ok THEN r1 ELSE
    LET r2 == take(4, r1.rest)
    IN  IF ~r2.ok THEN r2 ELSE
    LET r3 == be_u16(r2.rest)
    IN  IF ~r3.ok THEN r3 ELSE
    LET r4 == be_u16(r3.rest)
    IN  IF ~r4.ok THEN r4 ELSE
        Ok(r4.rest, IPv4Address(Ipv4Addr_new(r1.val), Ipv4Addr_new(r2.val),
                                r3.val, r4.val))

Ipv6Addr_new_LowByteFirst(b) ==
    [i \in 1..8 |-> BitOr(Shl8(b[2 * i]), b[2 * i - 1])]

(* Ipv6Addr::new of the eight groups (b[2k] as u16) << 8 | b[2k+1] as u16. *)
Ipv6Addr_new(b) ==
    [i \in 1..8 |-> BitOr(Shl8(b[2 * i - 1]), b[2 * i])]

IPv6Address(source_ip, destination_ip, source_port, destination_port) ==
    [source_ip        |-> source_ip,
     destination_ip   |-> destination_ip,
     source_port      |-> source_port,
     destination_port |-> destination_port]

parse_ipv6_address(inp) ==
    LET r1 == take(16, inp)
    IN  IF ~r1.ok THEN r1 ELSE
    LET r2 == take(16, r1.rest)
    IN  IF ~r2.ok THEN r2 ELSE
    LET r3 == be_u16(r2.rest)
    IN  IF ~r3.ok THEN r3 ELSE
    LET r4 == be_u16(r3.rest)
    IN  IF ~r4.ok THEN r4 ELSE
        Ok(r4.rest, IPv6Address(Ipv6Addr_new(r1.val), Ipv6Addr_new(r2.val),
                                r3.val, r4.val))

----------------------------------------------------------------------------
(* Inputs. *)

(* example_data of test_ppv2_simple *)
example_data ==
    <<13, 10, 13, 10, 0, 13, 10, 81, 85, 73, 84, 10,
      33, 17, 0, 12,
      192, 168, 1, 1, 192, 168, 1, 2, 31, 144, 0, 80>>

ExampleHeaderBytes == SubSeq(example_data, 13, 16)
ExampleIpv4Bytes   == SubSeq(example_data, 17, 28)

TrailBytes == {0, 13, 255}
Trails == UNION {[1..n -> TrailBytes] : n \in 0..MaxTrail}

(* the signature with one byte replaced *)
MutValues == {0, 10, 13, 255}
SigMutants ==
    {[SIGNATURE EXCEPT ![i] = v] : i \in 1..12, v \in MutValues} \ {SIGNATURE}

HeaderBytes ==
    {<<b0, b1, b2, b3>> : b0 \in {33, 32, 47, 17, 0, 49, 241, 18},
                           b1 \in {17, 33, 0, 255, 18},
                           b2 \in {0, 1, 255},
                           b3 \in {12, 0, 255}}

Ipv4Blocks ==
    {ExampleIpv4Bytes,
     [i \in 1..12 |-> 0],
     [i \in 1..12 |-> 255],
     [i \in 1..12 |-> i]}

Ipv6Blocks ==
    {[i \in 1..36 |-> 0],
     [i \in 1..36 |-> 255],
     [i \in 1..36 |-> i],
     [i \in 1..36 |-> (i * 37) % 256]}

Prefixes(S) == UNION {{Take(s, k) : k \in 0..Len(s)} : s \in S}

Buffers ==
    Prefixes({SIGNATURE} \cup SigMutants)
    \cup {s \o h \o t : s \in SigMutants, h \in {ExampleHeaderBytes}, t \in Trails}
    \cup Prefixes({SIGNATURE \o h : h \in HeaderBytes})
    \cup {SIGNATURE \o h \o t : h \in HeaderBytes, t \in Trails}
    \cup Prefixes(Ipv4Blocks \cup Ipv6Blocks)
    \cup {a \o t : a \in Ipv4Blocks \cup Ipv6Blocks, t \in Trails}
    \cup {SIGNATURE \o h \o a \o t :
             h \in {ExampleHeaderBytes, <<32, 33, 0, 36>>},
             a \in Ipv4Blocks \cup Ipv6Blocks, t \in Trails}
    \cup {h \o t : h \in HeaderBytes, t \in Trails}
    \cup {h \o a : h \in {ExampleHeaderBytes}, a \in Ipv4Blocks}

----------------------------------------------------------------------------
(* The caller: one buffer, the slice still to decode, the calls made. *)

Init ==
    /\ buffer \in Buffers
    /\ input = buffer
    /\ trace = <<>>

CanCall ==
    /\ Len(trace) < MaxCalls
    /\ IF trace = <<>> THEN TRUE ELSE trace[Len(trace)].res.ok

Record(fn, r) ==
    /\ trace' = Append(trace, [fn |-> fn, arg |-> input, res |-> r])
    /\ input' = IF r.ok THEN r.rest ELSE input
    /\ UNCHANGED buffer

ParseSignature ==
    /\ CanCall
    /\ Record("parse_signature", parse_signature(input))

ParseHeader ==
    /\ CanCall
    /\ Record("parse_header", parse_header(input))

ParseIpv4Address ==
    /\ CanCall
    /\ Record("parse_ipv4_address", parse_ipv4_address(input))

ParseIpv6Address ==
    /\ CanCall
    /\ Record("parse_ipv6_address", parse_ipv6_address(input))

Next ==
    \/ ParseSignature
    \/ ParseHeader
    \/ ParseIpv4Address
    \/ ParseIpv6Address

Spec == Init /\ [][Next]_vars

----------------------------------------------------------------------------
(* Properties.  Calls == the calls recorded so far; each property speaks   *)
(* of every recorded call of the parser it is about.                       *)

Calls == {trace[k] : k \in 1..Len(trace)}
CallsOf(fn) == {c \in Calls : c.fn = fn}

(* C1: on an input of at least 12 bytes parse_signature succeeds exactly   *)
(* when the first 12 bytes are 0D 0A 0D 0A 00 0D 0A 51 55 49 54 0A; on     *)
(* success the remainder is the input without its first 12 bytes; a        *)
(* differing 12-byte prefix is a Tag (signature mismatch) error.           *)
C1_SignatureIff ==
    \A c \in CallsOf("parse_signature") :
        Len(c.arg) >= 12 =>
            /\ c.res.ok <=>
                   Take(c.arg, 12) = <<13, 10, 13, 10, 0, 13, 10, 81, 85, 73, 84, 10>>
            /\ c.res.ok => /\ c.res.rest = Drop(c.arg, 12)
                           /\ c.res.val = Take(c.arg, 12)
            /\ ~c.res.ok => c.res.code = "Tag"

C1_Witness ==
    \E c \in CallsOf("parse_signature") :
        /\ Len(c.arg) > 12
        /\ c.res.ok
        /\ c.res.rest # <<>>

(* C2, as stated: parse_header given the bytes that follow the signature   *)
(* consumes exactly 4 bytes; on [0x21, 0x11, 0x00, 0x0C] it succeeds with  *)
(* {version 2, command 1, protocol 1, address_family 1, length 12} and an  *)
(* empty remainder.                                                        *)
C2_HeaderAfterSignature ==
    \A c \in CallsOf("parse_header") :
        /\ c.res.ok => Len(c.arg) - Len(c.res.rest) = 4
        /\ c.arg = <<33, 17, 0, 12>> =>
               /\ c.res.ok
               /\ c.res.val = [version |-> 2, command |-> 1, protocol |-> 1,
                               address_family |-> 1, length |-> 12]
               /\ c.res.rest = <<>>

(* C2, amended: parse_header matches the signature itself, so a successful *)
(* call was given the 12 signature bytes first and consumes exactly 16     *)
(* bytes; on signature ++ [0x21, 0x11, 0x00, 0x0C] it succeeds with        *)
(* {version 2, command 1, protocol 1, address_family 1, length 12} and an  *)
(* empty remainder.                                                        *)
C2_HeaderWithSignature ==
    \A c \in CallsOf("parse_header") :
        /\ c.res.ok =>
               /\ Len(c.arg) - Len(c.res.rest) = 16
               /\ Take(c.arg, 12) = <<13, 10, 13, 10, 0, 13, 10, 81, 85, 73, 84, 10>>
        /\ c.arg = <<13, 10, 13, 10, 0, 13, 10, 81, 85, 73, 84, 10, 33, 17, 0, 12>> =>
               /\ c.res.ok
               /\ c.res.val = [version |-> 2, command |-> 1, protocol |-> 1,
                               address_family |-> 1, length |-> 12]
               /\ c.res.rest = <<>>

C2_Witness ==
    \E c \in CallsOf("parse_header") :
        /\ c.arg = <<13, 10, 13, 10, 0, 13, 10, 81, 85, 73, 84, 10, 33, 17, 0, 12>>
        /\ c.res.ok
        /\ c.res.rest = <<>>

(* C3: when the version/command byte (the byte right after the matched     *)
(* signature) has a high nibble other than 2, parse_header fails with the  *)
(* Verify (bad version) error whatever follows that byte, nothing          *)
(* included; every Header parse_header returns has version 2.              *)
C3_VersionGuard ==
    \A c \in CallsOf("parse_header") :
        /\ ( /\ Len(c.arg) >= 13
             /\ Take(c.arg, 12) = <<13, 10, 13, 10, 0, 13, 10, 81, 85, 73, 84, 10>>
             /\ c.arg[13] \div 16 # 2 )
           => (~c.res.ok /\ c.res.code = "Verify")
        /\ c.res.ok => c.res.val.version = 2

C3_Witness ==
    \E c \in CallsOf("parse_header") :
        /\ Len(c.arg) = 13
        /\ c.arg[13] \div 16 # 2
        /\ c.arg[13] % 16 = 2
        /\ ~c.res.ok
        /\ c.res.code = "Verify"

(* C4: on every input shorter than 12 bytes parse_signature fails with an  *)
(* insufficient-input error (Eof), never with the signature-mismatch error *)
(* (Tag).                                                                  *)
C4_ShortSignatureInsufficient ==
    \A c \in CallsOf("parse_signature") :
        Len(c.arg) < 12 =>
            /\ ~c.res.ok
            /\ c.res.code = "Eof"
            /\ c.res.code # "Tag"

(* C5, as stated: on the 28-byte example, parse_signature, then            *)
(* parse_header on its remainder, then parse_ipv4_address on that          *)
(* remainder all succeed and give the example Header, the example          *)
(* IPv4Address and an empty remainder.                                     *)
C5_ThreeStagePipeline ==
    buffer = example_data =>
        /\ (Len(trace) >= 1 /\ trace[1].fn = "parse_signature") =>
               trace[1].res.ok
        /\ ( /\ Len(trace) >= 2
             /\ trace[1].fn = "parse_signature"
             /\ trace[2].fn = "parse_header" ) =>
               /\ trace[2].res.ok
               /\ trace[2].res.val = [version |-> 2, command |-> 1, protocol |-> 1,
                                      address_family |-> 1, length |-> 12]
        /\ ( /\ Len(trace) >= 3
             /\ trace[1].fn = "parse_signature"
             /\ trace[2].fn = "parse_header"
             /\ trace[3].fn = "parse_ipv4_address" ) =>
               /\ trace[3].res.ok
               /\ trace[3].res.val = [source_ip |-> <<192, 168, 1, 1>>,
                                      destination_ip |-> <<192, 168, 1, 2>>,
                                      source_port |-> 8080,
                                      destination_port |-> 80]
               /\ trace[3].res.rest = <<>>

(* C5, amended: on the 28-byte example, parse_header on the whole buffer   *)
(* (it matches the signature itself), then parse_ipv4_address on its       *)
(* remainder both succeed and give the example Header, the example         *)
(* IPv4Address and an empty remainder; parse_header on the remainder of    *)
(* parse_signature fails with the Tag error.                               *)
C5_TwoStagePipeline ==
    buffer = example_data =>
        /\ (Len(trace) >= 1 /\ trace[1].fn = "parse_header") =>
               /\ trace[1].res.ok
               /\ trace[1].res.val = [version |-> 2, command |-> 1, protocol |-> 1,
                                      address_family |-> 1, length |-> 12]
        /\ ( /\ Len(trace) >= 2
             /\ trace[1].fn = "parse_header"
             /\ trace[2].fn = "parse_ipv4_address" ) =>
               /\ trace[2].res.ok
               /\ trace[2].res.val = [source_ip |-> <<192, 168, 1, 1>>,
                                      destination_ip |-> <<192, 168, 1, 2>>,
                                      source_port |-> 8080,
                                      destination_port |-> 80]
               /\ trace[2].res.rest = <<>>
        /\ ( /\ Len(trace) >= 2
             /\ trace[1].fn = "parse_signature"
             /\ trace[2].fn = "parse_header" ) =>
               /\ trace[1].res.ok
               /\ ~trace[2].res.ok
               /\ trace[2].res.code = "Tag"

C5_Witness ==
    /\ buffer = example_data
    /\ Len(trace) = 2
    /\ trace[1].fn = "parse_header"
    /\ trace[2].fn = "parse_ipv4_address"
    /\ trace[2].res.ok
    /\ input = <<>>

(* C6: on signature ++ b0 b1 b2 b3 ++ anything with b0 >> 4 = 2,           *)
(* parse_header succeeds with version 2, command b0 & 0x0F, address_family *)
(* b1 >> 4, protocol b1 & 0x0F, length 256*b2 + b3, whatever those values  *)
(* are, and the remainder is the buffer without its first 16 bytes.        *)
C6_HeaderFields ==
    \A c \in CallsOf("parse_header") :
        ( /\ Len(c.arg) >= 16
          /\ Take(c.arg, 12) = <<13, 10, 13, 10, 0, 13, 10, 81, 85, 73, 84, 10>>
          /\ c.arg[13] \div 16 = 2 )
        => /\ c.res.ok
           /\ c.res.val = [version        |-> 2,
                           command        |-> c.arg[13] % 16,
                           address_family |-> c.arg[14] \div 16,
                           protocol       |-> c.arg[14] % 16,
                           length         |-> 256 * c.arg[15] + c.arg[16]]
           /\ c.res.rest = Drop(c.arg, 16)

C6_Witness ==
    \E c \in CallsOf("parse_header") :
        /\ Len(c.arg) > 16
        /\ c.res.ok
        /\ c.res.val.command = 15
        /\ c.res.val.address_family = 2
        /\ c.res.val.protocol = 1
        /\ c.res.val.length = 65280

(* C7: parse_ipv4_address succeeds exactly when at least 12 bytes are      *)
(* available; then source_ip is bytes 0..3, destination_ip bytes 4..7,     *)
(* source_port 256*b8 + b9, destination_port 256*b10 + b11 and the         *)
(* remainder is the input without its first 12 bytes; otherwise it fails   *)
(* with Eof.  The example bytes give 192.168.1.1, 192.168.1.2, 8080, 80.   *)
C7_Ipv4Address ==
    \A c \in CallsOf("parse_ipv4_address") :
        /\ c.res.ok <=> Len(c.arg) >= 12
        /\ c.res.ok =>
               /\ c.res.val.source_ip = <<c.arg[1], c.arg[2], c.arg[3], c.arg[4]>>
               /\ c.res.val.destination_ip = <<c.arg[5], c.arg[6], c.arg[7], c.arg[8]>>
               /\ c.res.val.source_port = 256 * c.arg[9] + c.arg[10]
               /\ c.res.val.destination_port = 256 * c.arg[11] + c.arg[12]
               /\ c.res.rest = Drop(c.arg, 12)
        /\ ~c.res.ok => c.res.code = "Eof"
        /\ ( /\ Len(c.arg) >= 12
             /\ Take(c.arg, 12) = <<192, 168, 1, 1, 192, 168, 1, 2, 31, 144, 0, 80>> )
           => c.res.val = [source_ip |-> <<192, 168, 1, 1>>,
                           destination_ip |-> <<192, 168, 1, 2>>,
                           source_port |-> 8080,
                           destination_port |-> 80]

C7_Witness ==
    \E c \in CallsOf("parse_ipv4_address") :
        /\ Len(c.arg) > 12
        /\ c.res.ok
        /\ c.res.val.source_port = 8080
        /\ c.res.val.destination_port = 80
        /\ c.res.rest # <<>>

(* C8: parse_ipv6_address succeeds exactly when at least 36 bytes are      *)
(* available; then group i of source_ip is 256*b[2i] + b[2i+1], group i of *)
(* destination_ip is 256*b[16+2i] + b[16+2i+1], source_port is             *)
(* 256*b32 + b33, destination_port is 256*b34 + b35 and the remainder is   *)
(* the input without its first 36 bytes; otherwise it fails with Eof.      *)
C8_Ipv6Address ==
    \A c \in CallsOf("parse_ipv6_address") :
        /\ c.res.ok <=> Len(c.arg) >= 36
        /\ c.res.ok =>
               /\ \A i \in 0..7 :
                      /\ c.res.val.source_ip[i + 1] =
                             256 * c.arg[2 * i + 1] + c.arg[2 * i + 2]
                      /\ c.res.val.destination_ip[i + 1] =
                             256 * c.arg[16 + 2 * i + 1] + c.arg[16 + 2 * i + 2]
               /\ Len(c.res.val.source_ip) = 8
               /\ Len(c.res.val.destination_ip) = 8
               /\ c.res.val.source_port = 256 * c.arg[33] + c.arg[34]
               /\ c.res.val.destination_port = 256 * c.arg[35] + c.arg[36]
               /\ c.res.rest = Drop(c.arg, 36)
        /\ ~c.res.ok => c.res.code = "Eof"

C8_Witness ==
    \E c \in CallsOf("parse_ipv6_address") :
        /\ Len(c.arg) > 36
        /\ c.res.ok
        /\ c.res.val.source_ip[1] = 258
        /\ c.res.val.destination_ip[8] = 7968
        /\ c.res.rest # <<>>

(* C9, as stated: when 0, 1, 2 or 3 bytes of any value follow the          *)
(* signature, parse_header fails with the insufficient-input error (Eof).  *)
C9_ShortHeaderInsufficient ==
    \A c \in CallsOf("parse_header") :
        ( /\ Len(c.arg) >= 12
          /\ Len(c.arg) < 16
          /\ Take(c.arg, 12) = <<13, 10, 13, 10, 0, 13, 10, 81, 85, 73, 84, 10>> )
        => (~c.res.ok /\ c.res.code = "Eof")

(* C9, amended: when 0, 1, 2 or 3 bytes follow the signature, parse_header *)
(* fails: with Verify (bad version) when a first byte is there and its     *)
(* high nibble is not 2, and with the insufficient-input error (Eof), a    *)
(* kind other than Verify and Tag, in every other case.                    *)
C9_ShortHeaderEofOrVerify ==
    \A c \in CallsOf("parse_header") :
        ( /\ Len(c.arg) >= 12
          /\ Len(c.arg) < 16
          /\ Take(c.arg, 12) = <<13, 10, 13, 10, 0, 13, 10, 81, 85, 73, 84, 10>> )
        => /\ ~c.res.ok
           /\ c.res.code = IF Len(c.arg) >= 13 /\ c.arg[13] \div 16 # 2
                           THEN "Verify" ELSE "Eof"

C9_Witness ==
    \E c \in CallsOf("parse_header") :
        /\ Len(c.arg) = 15
        /\ Take(c.arg, 12) = <<13, 10, 13, 10, 0, 13, 10, 81, 85, 73, 84, 10>>
        /\ c.arg[13] \div 16 = 2
        /\ ~c.res.ok
        /\ c.res.code = "Eof"

(* C10: for each parser, replacing what follows the bytes it consumes (12, *)
(* 16, 12, 36) by any other trailing bytes gives the same decoded value,   *)
(* or the same error kind at the same offset, and on success the remainder *)
(* is exactly the trailing bytes, in order.                                *)
SameOutcome(c, n, r, t) ==
    /\ r.ok = c.res.ok
    /\ c.res.ok => /\ r.val = c.res.val
                   /\ r.rest = t
                   /\ c.res.rest = Drop(c.arg, n)
    /\ ~c.res.ok => /\ r.code = c.res.code
                    /\ (n + Len(t)) - Len(r.input) = Len(c.arg) - Len(c.res.input)

C10_TrailingBytesUntouched ==
    /\ \A c \in CallsOf("parse_signature") : \A t \in Trails :
           Len(c.arg) >= 12 =>
               SameOutcome(c, 12, parse_signature(Take(c.arg, 12) \o t), t)
    /\ \A c \in CallsOf("parse_header") : \A t \in Trails :
           Len(c.arg) >= 16 =>
               SameOutcome(c, 16, parse_header(Take(c.arg, 16) \o t), t)
    /\ \A c \in CallsOf("parse_ipv4_address") : \A t \in Trails :
           Len(c.arg) >= 12 =>
               SameOutcome(c, 12, parse_ipv4_address(Take(c.arg, 12) \o t), t)
    /\ \A c \in CallsOf("parse_ipv6_address") : \A t \in Trails :
           Len(c.arg) >= 36 =>
               SameOutcome(c, 36, parse_ipv6_address(Take(c.arg, 36) \o t), t)

C10_Witness ==
    /\ Len(trace) = 2
    /\ trace[1].fn = "parse_header"
    /\ trace[1].res.ok
    /\ Len(trace[1].res.rest) > 36
    /\ trace[2].fn = "parse_ipv6_address"
    /\ trace[2].res.ok
    /\ trace[2].res.rest # <<>>

====
